---- MODULE Spec2Model ----
(***************************************************************************)
(* Model of TcpTransport (src/TcpTransport.ts): a winston transport that   *)
(* streams log records over one TCP socket, reconnects with exponential    *)
(* backoff and buffers records while it is not connected.                  *)
(*                                                                         *)
(* One action per entry point of the class: the public methods log() and   *)
(* close(), the four socket event handlers installed by _connect(), the    *)
(* reconnect timer callback and the callback handed to socket.end().  The  *)
(* 'connect' handler contains the loop of _flushBuffer(); the loop is      *)
(* modelled one iteration per step with pc = "flush", and no other entry   *)
(* point is enabled until the handler has returned (JavaScript runs a      *)
(* handler to completion).                                                 *)
(*                                                                         *)
(* The environment (the net.Socket and the timers) chooses: whether        *)
(* socket.connect() and socket.write() throw synchronously, which socket   *)
(* event comes next, and when the timer fires.  An 'error' emitted while   *)
(* no 'error' listener is registered throws at the emit, as EventEmitter   *)
(* does.  Listeners only observe: they do not call back into the           *)
(* transport.                                                              *)
(*                                                                         *)
(* socket is the state of the current net.Socket:                          *)
(*   "connecting"   socket.connect() returned, the connect is in flight    *)
(*   "unconnected"  socket.connect() threw, the socket never connects      *)
(*   "open"         'connect' was emitted                                  *)
(*   "errored"      'error' was emitted, 'close' follows at once           *)
(*   "destroyed"    destroy() was called, 'close' follows at once          *)
(*   "closed"       'close' was emitted, the socket emits nothing more     *)
(* old is the state of the socket that _connect() destroyed and replaced   *)
(* last; its 'close' event is still delivered to whatever listeners it     *)
(* has left.                                                               *)
(***************************************************************************)
EXTENDS Integers, Sequences, FiniteSets, TLC

(* ------------------------------ bounds -------------------------------- *)

\* number of log() calls in a behaviour
MaxLogs == 4
\* cap on retryCount when maxRetries = -1 (the timer stops firing there)
MaxRetryCount == 3
\* the bounded value of the option maxRetries tried next to -1
BoundedRetries == 2

(* --------------------------- configuration ---------------------------- *)

\* options.bufferMax (a small capacity instead of the default 1000)
bufferMax == 2
\* options.retryDelay ?? 1000
retryDelay == 1000
\* options.maxBackoff (a small cap instead of the default 30000, so that
\* the cap is reached within MaxRetryCount attempts)
maxBackoff == 3000
\* os.EOL
EOL == "\n"
\* this.reconnectTimer when no timeout is pending
NoTimer == -1

VARIABLES
    maxRetries,      \* options.maxRetries ?? -1, immutable
    errorObserver,   \* whether an 'error' listener is registered on the transport
    buffer,          \* this.buffer
    retryCount,      \* this.retryCount
    connected,       \* this.connected
    closing,         \* this.closing
    reconnectTimer,  \* delay of the pending timeout, or NoTimer
    socket,          \* state of this.socket (the only socket with listeners)
    endCb,           \* a callback handed to socket.end() is still to be called
    pc,              \* "idle", or "flush" inside the 'connect' handler
    written,         \* messages for which socket.write() returned normally
    logged,          \* messages built by log(), in call order
    events,          \* notifications emitted by the last step
    last,            \* the last step: entry point and path taken
    raised,          \* the last step ended by an exception leaving the handler
    flushFrom,       \* the buffer when the last 'connect' handler started
    flushed,         \* messages written by the last 'connect' handler
    prevDelay,       \* delay of the timer armed last since the last 'connect'
                     \* event (or construction), 0 when none was armed
    attempts,        \* timer firings since the last 'connect' event
    directs,         \* messages log() wrote directly since the last 'connect'
                     \* event
    downLogged,      \* messages log() appended to the buffer since the last
                     \* 'connect' event
    flushEnd,        \* how the last 'connect' handler ended: "none" before the
                     \* first, "running", "returned" or "threw"
    spin,            \* parity of the writes that threw and were re-queued in
                     \* the last _flushBuffer() call
    timers,          \* number of timeouts set by setTimeout that have neither
                     \* fired nor been cleared
    old,             \* state of the socket _connect() discarded last: "none",
                     \* or a socket state
    oldListens       \* whether that socket still has the listeners of the
                     \* transport

vars == <<maxRetries, errorObserver, buffer, retryCount, connected, closing,
          reconnectTimer, socket, endCb, pc, written, logged, events, last,
          raised, flushFrom, flushed, prevDelay, attempts, directs, downLogged,
          flushEnd, spin, timers, old, oldListens>>

(* ------------------------------ helpers ------------------------------- *)

Min(a, b) == IF a <= b THEN a ELSE b

\* a notification: emit(name, payload)
Ev(name, cause, delay, attempt) ==
    [name |-> name, cause |-> cause, delay |-> delay, attempt |-> attempt]

Connected == Ev("connected", "", 0, 0)
Disconnected == Ev("disconnected", "", 0, 0)
Closed == Ev("closed", "", 0, 0)
WriteError == Ev("error", "write", 0, 0)
OverflowError == Ev("error", "Buffer overflow", 0, 0)
Reconnecting(delay, attempt) == Ev("reconnecting", "", delay, attempt)

\* const message = `${info[MESSAGE]}${os.EOL}`
Message(text) == text \o EOL

\* info[MESSAGE] of the k-th log() call
Info(k) == "m" \o ToString(k)

\* 2 ** n
RECURSIVE Pow2(_)
Pow2(n) == IF n = 0 THEN 1 ELSE 2 * Pow2(n - 1)

\* Math.min(this.retryDelay * 2 ** this.retryCount, this.maxBackoff)
BackoffDelay(rc) == Min(retryDelay * Pow2(rc), maxBackoff)

\* ScheduleSkips without the test of this.closing
ScheduleSkipsNoClosing(cl, rc) == maxRetries >= 0 /\ rc >= maxRetries

\* ScheduleSkips with > for >= in the test of retryCount
ScheduleSkipsLate(cl, rc) == cl \/ (maxRetries >= 0 /\ rc > maxRetries)

\* the two early returns of _scheduleReconnect
ScheduleSkips(cl, rc) == cl \/ (maxRetries >= 0 /\ rc >= maxRetries)

\* this.reconnectTimer after _scheduleReconnect()
Scheduled(cl, rc, timer) ==
    IF ScheduleSkips(cl, rc) THEN timer ELSE BackoffDelay(rc)

\* what _scheduleReconnect() emits
ScheduleEvents(cl, rc) ==
    IF ScheduleSkips(cl, rc) THEN <<>>
    ELSE <<Reconnecting(BackoffDelay(rc), rc + 1)>>

\* ClearTimeout that cancels nothing
ClearTimeoutNoop(timer, n) == n

\* if (this.reconnectTimer) clearTimeout(this.reconnectTimer): the number of
\* live timeouts after it, n before
ClearTimeout(timer, n) == IF timer # NoTimer THEN n - 1 ELSE n

\* the number of live timeouts after _scheduleReconnect(), n before
LiveTimers(cl, rc, timer, n) ==
    IF ScheduleSkips(cl, rc) THEN n ELSE ClearTimeout(timer, n) + 1

\* Requeue without the capacity check
RequeueUnbounded(buf, message) == <<message>> \o buf

\* the catch block of _safeWrite: the buffer after the re-queue
Requeue(buf, message) ==
    IF Len(buf) < bufferMax THEN <<message>> \o buf ELSE buf

\* Overflows with > for >=
OverflowsLate(buf) == Len(buf) > bufferMax

\* the else branch of log(): whether the record overflows
Overflows(buf) == Len(buf) >= bufferMax

\* only the 'close' event can come next: it is emitted right after an
\* 'error' event and in the tick that follows socket.destroy(), for the
\* current socket and for the one _connect() has just discarded
ClosePending == socket \in {"errored", "destroyed"} \/ old = "destroyed"

\* between handlers, with no 'close' event due
Quiet == pc = "idle" /\ ~ClosePending

(* ------------------------------- Init --------------------------------- *)

\* the constructor: field initialisers, options, then _connect()
Init ==
    /\ maxRetries \in {-1, BoundedRetries}
    /\ errorObserver \in BOOLEAN
    /\ buffer = <<>>
    /\ retryCount = 0
    /\ connected = FALSE
    /\ closing = FALSE
    /\ endCb = FALSE
    /\ pc = "idle"
    /\ written = <<>>
    /\ logged = <<>>
    /\ raised = FALSE
    /\ flushFrom = <<>>
    /\ flushed = <<>>
    /\ \E throws \in BOOLEAN :
        /\ socket = IF throws THEN "unconnected" ELSE "connecting"
        /\ reconnectTimer = IF throws THEN Scheduled(FALSE, 0, NoTimer) ELSE NoTimer
        /\ events = IF throws THEN ScheduleEvents(FALSE, 0) ELSE <<>>
        /\ prevDelay = IF throws THEN Scheduled(FALSE, 0, 0) ELSE 0
        /\ timers = IF throws THEN LiveTimers(FALSE, 0, NoTimer, 0) ELSE 0
        /\ attempts = 0
        /\ directs = {}
        /\ downLogged = <<>>
        /\ flushEnd = "none"
        /\ spin = 0
        /\ old = "none"
        /\ oldListens = FALSE
        /\ last = IF throws THEN "new:connectThrows" ELSE "new"

(* ------------------------------ log() --------------------------------- *)

\* log(info, callback): a direct write when connected, else the buffer.
\* (The deferred 'logged' notification of setImmediate changes no state of
\* the transport and is left out.)
Log ==
    /\ Quiet
    /\ Len(logged) < MaxLogs
    /\ LET message == Message(Info(Len(logged) + 1)) IN
       /\ logged' = Append(logged, message)
       /\ \/ \* this.connected && this.socket: _safeWrite, write returns
             /\ connected
             /\ written' = Append(written, message)
             /\ directs' = directs \cup {message}
             /\ events' = <<>>
             /\ last' = "log:write"
             /\ raised' = FALSE
             /\ UNCHANGED <<buffer, reconnectTimer, prevDelay, downLogged, timers>>
          \/ \* _safeWrite, write throws
             /\ connected
             /\ last' = "log:writeThrows"
             /\ raised' = ~errorObserver
             /\ UNCHANGED <<written, directs, downLogged>>
             /\ IF errorObserver
                THEN /\ buffer' = Requeue(buffer, message)
                     /\ reconnectTimer' = Scheduled(closing, retryCount, reconnectTimer)
                     /\ timers' = LiveTimers(closing, retryCount, reconnectTimer, timers)
                     /\ prevDelay' = Scheduled(closing, retryCount, prevDelay)
                     /\ events' = <<WriteError>> \o ScheduleEvents(closing, retryCount)
                ELSE \* emit('error') throws out of the catch block
                     /\ events' = <<WriteError>>
                     /\ UNCHANGED <<buffer, reconnectTimer, prevDelay, timers>>
          \/ \* not connected, buffer full
             /\ ~connected
             /\ Overflows(buffer)
             /\ events' = <<OverflowError>>
             /\ last' = "log:overflow"
             /\ raised' = ~errorObserver
             /\ UNCHANGED <<buffer, written, reconnectTimer, prevDelay, directs,
                          downLogged, timers>>
          \/ \* not connected, room in the buffer
             /\ ~connected
             /\ ~Overflows(buffer)
             /\ buffer' = Append(buffer, message)
             /\ downLogged' = Append(downLogged, message)
             /\ events' = <<>>
             /\ last' = "log:buffered"
             /\ raised' = FALSE
             /\ UNCHANGED <<written, reconnectTimer, prevDelay, directs, timers>>
    /\ UNCHANGED <<maxRetries, errorObserver, retryCount, connected, closing,
                   socket, endCb, pc, flushFrom, flushed, attempts, flushEnd,
                   spin, old, oldListens>>

(* ------------------------- socket 'connect' --------------------------- *)

\* this.retryCount = 0
ResetRetryCount(rc) == 0

\* the 'connect' handler up to the call of _flushBuffer()
SocketConnect ==
    /\ pc = "idle"
    /\ socket = "connecting"
    /\ connected' = TRUE
    /\ retryCount' = ResetRetryCount(retryCount)
    /\ socket' = "open"
    /\ pc' = "flush"
    /\ flushFrom' = buffer
    /\ flushed' = <<>>
    /\ prevDelay' = 0
    /\ attempts' = 0
    /\ directs' = {}
    /\ downLogged' = <<>>
    /\ flushEnd' = "running"
    /\ spin' = 0
    /\ events' = <<>>
    /\ last' = "connect"
    /\ raised' = FALSE
    /\ UNCHANGED <<maxRetries, errorObserver, buffer, closing, reconnectTimer,
                   endCb, written, logged, timers, old, oldListens>>

\* FlushContinues leaving the last record in the buffer
FlushStopsEarly(buf, conn) == Len(buf) > 1 /\ conn

\* FlushContinues with the connected test negated
FlushWhenDown(buf, conn) == Len(buf) > 0 /\ ~conn

\* the loop condition of _flushBuffer (this.socket is set since construction)
FlushContinues(buf, conn) == Len(buf) > 0 /\ conn

\* one iteration of the loop of _flushBuffer: shift, then _safeWrite
FlushWrite ==
    /\ pc = "flush"
    /\ FlushContinues(buffer, connected)
    /\ LET message == Head(buffer)
           rest == Tail(buffer) IN
       \/ \* write returns
          /\ buffer' = rest
          /\ written' = Append(written, message)
          /\ flushed' = Append(flushed, message)
          /\ events' = <<>>
          /\ last' = "flush:write"
          /\ raised' = FALSE
          /\ UNCHANGED <<reconnectTimer, prevDelay, pc, flushEnd, spin, timers>>
       \/ \* write throws
          /\ last' = "flush:writeThrows"
          /\ raised' = ~errorObserver
          /\ UNCHANGED <<written, flushed>>
          /\ IF errorObserver
             THEN /\ buffer' = Requeue(rest, message)
                  /\ reconnectTimer' = Scheduled(closing, retryCount, reconnectTimer)
                  /\ timers' = LiveTimers(closing, retryCount, reconnectTimer, timers)
                  /\ prevDelay' = Scheduled(closing, retryCount, prevDelay)
                  /\ events' = <<WriteError>> \o ScheduleEvents(closing, retryCount)
                  /\ spin' = 1 - spin
                  /\ UNCHANGED <<pc, flushEnd>>
             ELSE \* emit('error') throws: the handler is left, the record
                  \* is neither written nor re-queued
                  /\ buffer' = rest
                  /\ events' = <<WriteError>>
                  /\ pc' = "idle"
                  /\ flushEnd' = "threw"
                  /\ UNCHANGED <<reconnectTimer, prevDelay, spin, timers>>
    /\ UNCHANGED <<maxRetries, errorObserver, retryCount, connected, closing,
                   socket, endCb, logged, flushFrom, attempts, directs, downLogged,
                   old, oldListens>>

\* the loop of _flushBuffer ends; this.emit('connected')
FlushDone ==
    /\ pc = "flush"
    /\ ~FlushContinues(buffer, connected)
    /\ pc' = "idle"
    /\ flushEnd' = "returned"
    /\ events' = <<Connected>>
    /\ last' = "flush:done"
    /\ raised' = FALSE
    /\ UNCHANGED <<maxRetries, errorObserver, buffer, retryCount, connected,
                   closing, reconnectTimer, socket, endCb, written, logged,
                   flushFrom, flushed, prevDelay, attempts, directs,
                   downLogged, spin, timers, old, oldListens>>

(* ------------------- socket 'error', 'close', 'timeout' --------------- *)

\* the 'error' handler; the socket emits 'close' right after
SocketError ==
    /\ Quiet
    /\ socket \in {"connecting", "open"}
    /\ connected' = FALSE
    /\ reconnectTimer' = Scheduled(closing, retryCount, reconnectTimer)
    /\ timers' = LiveTimers(closing, retryCount, reconnectTimer, timers)
    /\ prevDelay' = Scheduled(closing, retryCount, prevDelay)
    /\ events' = ScheduleEvents(closing, retryCount)
    /\ socket' = "errored"
    /\ last' = "error"
    /\ raised' = FALSE
    /\ UNCHANGED <<maxRetries, errorObserver, buffer, retryCount, closing,
                   endCb, pc, written, logged, flushFrom, flushed, attempts,
                   directs, downLogged, flushEnd, spin, old, oldListens>>

\* CloseSchedules for a 'close' handler that never schedules
CloseNeverSchedules(cl) == FALSE

\* if (!this.closing) this._scheduleReconnect()
CloseSchedules(cl) == ~cl

\* the 'close' handler: after an error, after destroy(), or the peer closed
SocketClose ==
    /\ pc = "idle"
    /\ socket \in {"errored", "destroyed", "open"}
    /\ connected' = FALSE
    /\ IF CloseSchedules(closing)
       THEN /\ reconnectTimer' = Scheduled(closing, retryCount, reconnectTimer)
            /\ timers' = LiveTimers(closing, retryCount, reconnectTimer, timers)
            /\ prevDelay' = Scheduled(closing, retryCount, prevDelay)
            /\ events' = <<Disconnected>> \o ScheduleEvents(closing, retryCount)
       ELSE /\ events' = <<Disconnected>>
            /\ UNCHANGED <<reconnectTimer, prevDelay, timers>>
    /\ socket' = "closed"
    /\ last' = "close"
    /\ raised' = FALSE
    /\ UNCHANGED <<maxRetries, errorObserver, buffer, retryCount, closing,
                   endCb, pc, written, logged, flushFrom, flushed, attempts,
                   directs, downLogged, flushEnd, spin, old, oldListens>>

\* the 'timeout' handler: destroy the socket, schedule; connected is kept
SocketTimeout ==
    /\ Quiet
    /\ socket \in {"connecting", "open"}
    /\ socket' = "destroyed"
    /\ reconnectTimer' = Scheduled(closing, retryCount, reconnectTimer)
    /\ timers' = LiveTimers(closing, retryCount, reconnectTimer, timers)
    /\ prevDelay' = Scheduled(closing, retryCount, prevDelay)
    /\ events' = ScheduleEvents(closing, retryCount)
    /\ last' = "timeout"
    /\ raised' = FALSE
    /\ UNCHANGED <<maxRetries, errorObserver, buffer, retryCount, connected,
                   closing, endCb, pc, written, logged, flushFrom, flushed,
                   attempts, directs, downLogged, flushEnd, spin, old,
                   oldListens>>

(* --------------------------- reconnect timer -------------------------- *)

\* Destroy that leaves the socket as it is
DestroyNoop(sock) == sock

\* this.socket.destroy(): a socket that has emitted 'close' stays closed
Destroy(sock) == IF sock = "closed" THEN "closed" ELSE "destroyed"

\* this.socket.removeAllListeners(): whether listeners are left
RemoveAllListeners(listens) == FALSE

\* the setTimeout callback: this.retryCount++, then _connect(), which
\* destroys the socket, detaches its listeners, replaces it and schedules
\* again when socket.connect() throws
TimerFire ==
    /\ Quiet
    /\ reconnectTimer # NoTimer
    /\ retryCount < MaxRetryCount
    /\ retryCount' = retryCount + 1
    /\ attempts' = attempts + 1
    /\ old' = Destroy(socket)
    /\ oldListens' = RemoveAllListeners(TRUE)
    /\ \E throws \in BOOLEAN :
        /\ socket' = IF throws THEN "unconnected" ELSE "connecting"
        /\ reconnectTimer' =
             IF throws THEN Scheduled(closing, retryCount + 1, NoTimer) ELSE NoTimer
        /\ timers' =
             IF throws THEN LiveTimers(closing, retryCount + 1, NoTimer, timers - 1)
             ELSE timers - 1
        /\ prevDelay' =
             IF throws THEN Scheduled(closing, retryCount + 1, prevDelay) ELSE prevDelay
        /\ events' = IF throws THEN ScheduleEvents(closing, retryCount + 1) ELSE <<>>
        /\ last' = IF throws THEN "timer:connectThrows" ELSE "timer"
    /\ raised' = FALSE
    /\ UNCHANGED <<maxRetries, errorObserver, buffer, connected, closing, endCb,
                   pc, written, logged, flushFrom, flushed, directs, downLogged,
                   flushEnd, spin>>

\* the 'close' event of the socket _connect() destroyed and discarded: the
\* 'close' handler runs only if it is still attached
DiscardedClose ==
    /\ pc = "idle"
    /\ old = "destroyed"
    /\ old' = "closed"
    /\ IF oldListens
       THEN /\ connected' = FALSE
            /\ reconnectTimer' =
                 IF CloseSchedules(closing)
                 THEN Scheduled(closing, retryCount, reconnectTimer)
                 ELSE reconnectTimer
            /\ timers' =
                 IF CloseSchedules(closing)
                 THEN LiveTimers(closing, retryCount, reconnectTimer, timers)
                 ELSE timers
            /\ events' = <<Disconnected>>
       ELSE /\ events' = <<>>
            /\ UNCHANGED <<connected, reconnectTimer, timers>>
    /\ last' = "discarded:close"
    /\ raised' = FALSE
    /\ UNCHANGED <<maxRetries, errorObserver, buffer, retryCount, closing,
                   socket, endCb, pc, written, logged, flushFrom, flushed,
                   prevDelay, attempts, directs, downLogged, flushEnd, spin,
                   oldListens>>

(* ------------------------------ close() ------------------------------- *)

\* clearTimeout(this.reconnectTimer); this.reconnectTimer = undefined
ClearedTimer(timer) == NoTimer

\* close(): closing, cancel the timer, socket.end(callback)
Close ==
    /\ Quiet
    /\ closing' = TRUE
    /\ reconnectTimer' = ClearedTimer(reconnectTimer)
    /\ timers' = ClearTimeout(reconnectTimer, timers)
    /\ endCb' = TRUE
    /\ events' = <<>>
    /\ last' = "close()"
    /\ raised' = FALSE
    /\ UNCHANGED <<maxRetries, errorObserver, buffer, retryCount, connected,
                   socket, pc, written, logged, flushFrom, flushed, prevDelay,
                   attempts, directs, downLogged, flushEnd, spin, old,
                   oldListens>>

\* the callback of socket.end(): this.socket?.destroy(); emit('closed').
\* It is called once the socket has finished or was destroyed, never
\* while the connect is still in flight.
EndCallback ==
    /\ Quiet
    /\ endCb
    /\ socket # "connecting"
    /\ socket' = IF socket \in {"open", "unconnected"} THEN "destroyed" ELSE socket
    /\ endCb' = FALSE
    /\ events' = <<Closed>>
    /\ last' = "end"
    /\ raised' = FALSE
    /\ UNCHANGED <<maxRetries, errorObserver, buffer, retryCount, connected,
                   closing, reconnectTimer, pc, written, logged, flushFrom,
                   flushed, prevDelay, attempts, directs, downLogged, flushEnd,
                   spin, timers, old, oldListens>>

(* --------------------------- specification ---------------------------- *)

Next ==
    \/ Log
    \/ SocketConnect
    \/ FlushWrite
    \/ FlushDone
    \/ SocketError
    \/ SocketClose
    \/ SocketTimeout
    \/ TimerFire
    \/ DiscardedClose
    \/ Close
    \/ EndCallback

Spec == Init /\ [][Next]_vars

\* the 'close' event that follows an 'error' event or a destroy()
PendingClose == ClosePending /\ SocketClose

\* Spec with the progress the event loop gives: a running handler goes on,
\* a connect in flight resolves, a due 'close' event and the callback of
\* socket.end() are delivered, and a pending timer fires
FairSpec ==
    /\ Spec
    /\ WF_vars(FlushWrite)
    /\ WF_vars(FlushDone)
    /\ WF_vars(SocketConnect)
    /\ WF_vars(PendingClose)
    /\ WF_vars(DiscardedClose)
    /\ WF_vars(EndCallback)
    /\ WF_vars(TimerFire)

(* ------------------------------ claims ------------------------------- *)

\* the 'error' notifications among evs
Errors(evs) == {i \in DOMAIN evs : evs[i].name = "error"}

\* a log() call is the only step that extends logged
LogStep == logged' # logged

\* C1: in every reachable state the buffer holds at most bufferMax records,
\* the re-queue of a failed write included.
C1_BufferBounded == Len(buffer) <= bufferMax

\* C1 witness: a failed write was re-queued and the buffer is full.
C1_Witness ==
    /\ last \in {"log:writeThrows", "flush:writeThrows"}
    /\ errorObserver
    /\ Len(buffer) = bufferMax
    /\ buffer[1] = logged[Len(logged)]

\* C2: a log() call while not connected with bufferMax records buffered
\* emits exactly one 'error' (Buffer overflow), drops the record and leaves
\* the buffer as it was; with fewer records it emits no error and appends
\* the record at the tail.
C2_OverflowPolicy ==
    [][(LogStep /\ ~connected) =>
         IF Len(buffer) >= bufferMax
         THEN /\ Cardinality(Errors(events')) = 1
              /\ \A i \in Errors(events') : events'[i].cause = "Buffer overflow"
              /\ buffer' = buffer
              /\ written' = written
         ELSE /\ Errors(events') = {}
              /\ buffer' = buffer \o <<logged'[Len(logged')]>>
              /\ written' = written]_vars

\* C2 witness: a record was dropped on overflow, after one was appended.
C2_Witness ==
    /\ last = "log:overflow"
    /\ Len(buffer) = bufferMax
    /\ events = <<OverflowError>>
    /\ buffer[Len(buffer)] = logged[Len(logged) - 1]

\* s is the tail of t
IsSuffix(s, t) ==
    /\ Len(s) <= Len(t)
    /\ \A i \in DOMAIN s : s[i] = t[Len(t) - Len(s) + i]

\* a is written before b in w
Precedes(a, b, w) ==
    \E j, k \in DOMAIN w : j < k /\ w[j] = a /\ w[k] = b

\* the rank of message m among the log() calls
Pos(m) == CHOOSE i \in DOMAIN logged : logged[i] = m

\* the 'reconnecting' notifications among evs
Reconnects(evs) == {i \in DOMAIN evs : evs[i].name = "reconnecting"}

C5_DeliveryInLogOrder ==
    \A i, j \in DOMAIN written :
        i < j => Pos(written[i]) < Pos(written[j])

\* C6: after a direct write of log() has thrown (with an 'error' observer,
\* not closing, retries left), the record is at the head of the buffer, one
\* 'error' was emitted and a reconnect timer is armed, whatever the
\* occupancy of the buffer.
C6_FailedWriteRequeued ==
    (/\ last = "log:writeThrows"
     /\ errorObserver
     /\ ~ScheduleSkips(closing, retryCount)) =>
        /\ buffer # <<>>
        /\ buffer[1] = logged[Len(logged)]
        /\ Cardinality(Errors(events)) = 1
        /\ reconnectTimer # NoTimer

\* C7: once close() was called no reconnect timer is pending, and no later
\* step arms one, emits 'reconnecting' or is a timer firing (the only
\* caller of _connect()).
C7_NoReconnectAfterClose ==
    closing =>
        /\ reconnectTimer = NoTimer
        /\ Reconnects(events) = {}
        /\ last \notin {"timer", "timer:connectThrows"}

\* C7 witness: the socket failed after close() in a state where
\* _scheduleReconnect would otherwise have armed a timer.
C7_Witness ==
    /\ closing
    /\ last = "error"
    /\ ~ScheduleSkips(FALSE, retryCount)
    /\ written = <<>>

\* C8: once closing, the transport never becomes connected and no record
\* is written to the socket by a flush.
C8_ClosingBlocksConnect ==
    [][closing =>
         /\ (~connected => ~connected')
         /\ (flushed' = flushed \/ flushed' = <<>>)]_vars

\* C9: the timer that fires as the (n+1)-th reconnect attempt since the
\* last successful connection was armed with min(retryDelay * 2^n,
\* maxBackoff); every armed timer and every 'reconnecting' notification
\* carries min(retryDelay * 2^retryCount, maxBackoff), at most maxBackoff,
\* with attempt = retryCount + 1; the delays armed between two connections
\* do not decrease.
C9_BackoffSequence ==
    [][/\ (attempts' = attempts + 1) =>
            reconnectTimer = Min(retryDelay * 2^attempts, maxBackoff)
       /\ \A i \in Reconnects(events') :
            /\ events'[i].delay = Min(retryDelay * 2^retryCount', maxBackoff)
            /\ events'[i].delay <= maxBackoff
            /\ events'[i].attempt = retryCount' + 1
            /\ reconnectTimer' = events'[i].delay
       /\ (prevDelay' >= prevDelay \/ prevDelay' = 0)]_vars

\* C10: retryCount is 0 right after the 'connect' handler, and the first
\* reconnect scheduled after a successful connection uses delay
\* min(retryDelay, maxBackoff) and attempt 1.
C10_ResetOnConnect ==
    [][/\ (flushEnd' = "running" \/ last' = "flush:done") => retryCount' = 0
       /\ (flushEnd # "none" /\ prevDelay = 0) =>
            \A i \in Reconnects(events') :
                /\ events'[i].delay = Min(retryDelay, maxBackoff)
                /\ events'[i].attempt = 1]_vars

\* the retries are exhausted: the bounded number of attempts was made, no
\* timer is pending and the last attempt has failed
Exhausted ==
    /\ maxRetries >= 0
    /\ retryCount >= maxRetries
    /\ reconnectTimer = NoTimer
    /\ socket \notin {"connecting", "open"}

\* C11: with maxRetries = N >= 0, a step that calls _scheduleReconnect with
\* retryCount >= N arms no timer and emits no 'reconnecting'; at most N
\* timer firings follow a lost connection without a 'connect' in between;
\* once the retries are exhausted they stay exhausted, no connect attempt
\* is made, the transport is not connected, and every log() call appends
\* its record to the buffer while there is room and overflows after that.
C11_RetriesExhausted ==
    [][/\ (maxRetries >= 0 /\ retryCount' >= maxRetries) =>
            /\ Reconnects(events') = {}
            /\ (reconnectTimer' = reconnectTimer \/ reconnectTimer' = NoTimer)
       /\ maxRetries >= 0 => attempts' <= maxRetries
       /\ Exhausted =>
            /\ Exhausted'
            /\ attempts' = attempts
            /\ ~connected'
            /\ LogStep =>
                 IF Len(buffer) < bufferMax
                 THEN /\ buffer' = Append(buffer, logged'[Len(logged')])
                      /\ written' = written
                 ELSE /\ buffer' = buffer
                      /\ written' = written
                      /\ events' = <<OverflowError>>]_vars

\* a 'closed' notification was emitted after close(): the callback handed
\* to socket.end() has run
ClosedEmitted == closing /\ ~endCb

\* the notifications emitted by the last step
Emitted(evs) == {evs[i] : i \in DOMAIN evs}

\* a step that emits 'closed' leaves the socket destroyed
ClosedAfterRelease ==
    [][(Closed \in Emitted(events')) => (socket' \in {"destroyed", "closed"})]_vars

\* C12: after close() a 'closed' notification is eventually emitted, from
\* every state in which close() is called, and a step that emits 'closed'
\* leaves the socket destroyed.
C12_ClosedEventually == (closing ~> ClosedEmitted) /\ ClosedAfterRelease

\* the last step was a log() call
LogReturned == last \in {"log:write", "log:writeThrows", "log:overflow", "log:buffered"}

\* calls of the completion callback made by the last log() call: line 139
\* is reached unless an exception left log() before it
CallbackCalls == IF raised THEN 0 ELSE 1

\* C13: every log() call has invoked its callback exactly once when it
\* returns and raises nothing to its caller, in each outcome (written,
\* buffered, dropped on overflow, write throwing), with or without an
\* 'error' observer.
C13_LogCallbackOnce == LogReturned => (~raised /\ CallbackCalls = 1)

\* a write of the running _flushBuffer() call has thrown
FlushWriteFailed == flushEnd = "running" /\ last = "flush:writeThrows"

\* C14: a write that throws during a flush leaves the buffer as it was
\* before the iteration (the failed record back at the head, the records
\* behind it in their order), and after it the same _flushBuffer() call
\* attempts no further write, neither one that returns nor one that throws,
\* so that the call ends even when every write fails.
C14_FlushHaltsOnFailure ==
    [][/\ (last' = "flush:writeThrows") => (buffer' = buffer)
       /\ FlushWriteFailed => (written' = written /\ spin' = spin)]_vars

\* the connection state read off the fields of the transport
ConnectionState ==
    IF closing THEN "Closing"
    ELSE IF connected THEN "Connected"
    ELSE IF socket = "connecting" THEN "Connecting"
    ELSE "Disconnected"

\* the defined edges between connection states
Edges ==
    {<<"Disconnected", "Connecting">>, <<"Connecting", "Connected">>,
     <<"Connecting", "Disconnected">>, <<"Connected", "Disconnected">>}
    \cup {<<s, "Closing">> : s \in {"Disconnected", "Connecting", "Connected"}}

\* every change of the connection state follows a defined edge
FollowsEdges ==
    [][(ConnectionState' # ConnectionState) =>
         (<<ConnectionState, ConnectionState'>> \in Edges)]_vars

\* the step is a firing of the reconnect timer
TimerStep == attempts' = attempts + 1

\* C15: every change of the connection state follows a defined edge
\* (Closing is never left), and a reconnect timer never fires, starting a
\* new connect attempt, while the state is Connected.
C15_DefinedEdges ==
    FollowsEdges /\ [][TimerStep => (ConnectionState # "Connected")]_vars

\* retries are unlimited and close() was not called
Unlimited == maxRetries = -1 /\ ~closing

\* the last step was a socket failure: an 'error', 'close' or 'timeout'
\* event, or a socket.connect() that threw
SocketFailed ==
    last \in {"error", "close", "timeout", "new:connectThrows", "timer:connectThrows"}

\* a socket failure leaves a timer armed, and a transport that is not
\* connected has a connect in flight or a timer pending
AlwaysRetrying ==
    Unlimited =>
        /\ SocketFailed => reconnectTimer # NoTimer
        /\ ~connected => (socket = "connecting" \/ reconnectTimer # NoTimer)

\* the transport is down with no connect in flight
Down == Unlimited /\ ~connected /\ socket # "connecting"

\* a connect attempt was started, or cannot be: close() was called, or
\* retryCount is at the bound of the model
AttemptOrStopped ==
    \/ socket = "connecting"
    \/ last \in {"timer", "timer:connectThrows"}
    \/ closing
    \/ retryCount >= MaxRetryCount

\* C16: with maxRetries = -1 and no close(), every socket failure leaves a
\* reconnect timer armed; whenever the transport is not connected a connect
\* attempt is in flight or a timer is pending; and when timers fire, a new
\* connect attempt eventually follows.
C16_AlwaysRetrying == []AlwaysRetrying /\ (Down ~> AttemptOrStopped)

\* C16 witness: after two failed attempts the timer has fired a third time.
C16_Witness ==
    /\ Unlimited
    /\ last = "timer"
    /\ attempts = 3
    /\ ~connected

\* at most one timeout is live, and it is the one this.reconnectTimer holds
OneTimer == timers <= 1 /\ (timers = 1 <=> reconnectTimer # NoTimer)

\* a firing of the timer increments retryCount once and, when _connect()
\* succeeds in starting the attempt, leaves no timeout behind to fire for
\* the same failure
FiresOnce ==
    [][TimerStep =>
         /\ timers = 1
         /\ retryCount' = retryCount + 1
         /\ (last' = "timer") => (timers' = 0 /\ socket' = "connecting")]_vars

\* C17: at most one reconnect timer is live in every reachable state, also
\* after the 'error' and 'close' (or 'timeout' and 'close') handlers of one
\* socket failure have each called _scheduleReconnect; its firing is one
\* increment of retryCount and one _connect() call and leaves no second
\* timer to fire.
C17_OneTimer == []OneTimer /\ FiresOnce

\* C17 witness: a socket that never connected has failed, its 'error' (or
\* 'timeout') and 'close' handlers have both scheduled, and one timer is
\* live.
C17_Witness ==
    /\ last = "close"
    /\ flushEnd = "none"
    /\ ~closing
    /\ timers = 1
    /\ Reconnects(events) # {}

\* a socket on which a connect can complete or data can flow
Live(sock) == sock \in {"connecting", "open", "unconnected"}

\* the step delivers an event of the discarded socket
DiscardedStep == old = "destroyed" /\ old' = "closed"

\* an event of the discarded socket changes nothing of the transport
DiscardedIsInert ==
    [][DiscardedStep =>
         /\ UNCHANGED <<connected, retryCount, buffer, reconnectTimer, timers>>
         /\ events' = <<>>]_vars

\* C18: the socket that _connect() replaced is destroyed and has no
\* listener of the transport left, so at most one socket is live, and the
\* events of a discarded socket change neither connected, retryCount, the
\* buffer nor the reconnect timer.
C18_OneLiveSocket == [](~Live(old) /\ ~oldListens) /\ DiscardedIsInert

\* C18 witness: the 'close' event of a discarded socket that was connected
\* has been delivered while its successor is connecting, and connected was
\* left as it was.
C18_Witness ==
    /\ last = "discarded:close"
    /\ old = "closed"
    /\ socket = "connecting"
    /\ connected

\* the step is a log() call that hands its record to socket.write()
DirectWriteStep == LogStep /\ last' \in {"log:write", "log:writeThrows"}

\* log() writes directly only to an established socket
DirectWritesEstablished == [][DirectWriteStep => (socket = "open")]_vars

\* C19: whenever connected is true the current socket is an established
\* connection, neither connecting nor destroyed, and log() hands a record
\* to socket.write() only when the socket is established.
C19_ConnectedIsEstablished ==
    [](connected => socket = "open") /\ DirectWritesEstablished

\* retryCount is within its range
RetryCountInRange ==
    /\ retryCount >= 0
    /\ maxRetries >= 0 => retryCount <= maxRetries

\* retryCount changes only by the reset of the 'connect' handler and by the
\* increment of the timer callback; log() and close() leave it alone
RetryCountChanges ==
    [][/\ (retryCount' # retryCount) =>
            \/ (last' = "connect" /\ retryCount' = 0)
            \/ (TimerStep /\ retryCount' = retryCount + 1)
       /\ (LogStep \/ last' = "close()") => (retryCount' = retryCount)]_vars

\* C20: retryCount is never negative and, when maxRetries >= 0, never above
\* maxRetries; it changes only by a reset to 0 in the 'connect' handler and
\* by an increment of 1 when a reconnect timer fires, and log() and close()
\* leave it unchanged.
C20_RetryCountRange == []RetryCountInRange /\ RetryCountChanges

\* C20 witness: with bounded retries the last allowed timer has fired and
\* retryCount has reached maxRetries.
C20_Witness ==
    /\ maxRetries = BoundedRetries
    /\ retryCount = maxRetries
    /\ last = "timer"

====
